---- MODULE Spec2Model ----
(***************************************************************************)
(* mp3DurationDetector: the C/C++ bridge (mp3_lib.cpp) between a host and  *)
(* the MP3 analysis engine.  The bridge owns the detector singleton, the   *)
(* session objects and the lifecycle init -> run -> deinit; the engine is  *)
(* reached through the mp3_rust_session_*_impl symbols, which are the weak *)
(* stubs of mp3_lib.cpp unless the engine library is linked.               *)
(*                                                                         *)
(* Pointers are integers, NULL is 0.  Each client thread owns one          *)
(* mp3_audio_info_t record (info[t]) and one mp3_session_t* variable       *)
(* (sess[t]); the session heap and the engine's contexts are shared.       *)
(***************************************************************************)
EXTENDS Integers, Sequences, FiniteSets, TLC

\* ------------------------------------------------------------------------
\* mp3_result_t (mp3_lib.h)
\* ------------------------------------------------------------------------
MP3_OK == 0
MP3_ERR_INVALID_PTR == 1
MP3_ERR_INVALID_ARG == 2
MP3_ERR_OUT_OF_MEMORY == 3
MP3_ERR_IO == 4
MP3_ERR_INVALID_FORMAT == 5
MP3_ERR_NOT_IMPLEMENTED == 6
MP3_ERR_INTERNAL == 7

NULL == 0

\* &g_detector, the only detector object there is.
g_detector == 1

\* host_api.read_at = host_read_at and host_api.user_ctx = &ctx in the host.
host_read_at_fn == 1
file_ctx == 1

\* The address of an object of the caller's own: its mp3_host_api_t, its
\* mp3_audio_info_t record, its mp3_session_t* variable.
own_object == 1

\* ret[t] while no result code has been returned.
NoRet == 0 - 1

\* ------------------------------------------------------------------------
\* Bounds of the model
\* ------------------------------------------------------------------------
\* Longest byte source, in tokens.
MaxFileLen == 2
\* Session objects the heap can hold at once (engine contexts likewise).
MaxSessions == 2
\* mp3_session_run calls a client makes on one session.
MaxRuns == 2

Threads == {"t1", "t2"}
SessIds == 1..MaxSessions
EngIds == 1..MaxSessions
\* A non-null pointer value that is no session: what an uninitialised
\* mp3_session_t* variable of the caller may hold.
GARBAGE == MaxSessions + 1

\* ------------------------------------------------------------------------
\* mp3_audio_info_t
\* ------------------------------------------------------------------------
ZeroInfo ==
    [sample_rate |-> 0, channels |-> 0, bits_per_sample |-> 0, bitrate |-> 0,
     duration_ms |-> 0, data_size |-> 0, valid |-> 0]

\* A record left by some earlier, successful analysis of another source.
StaleInfo ==
    [sample_rate |-> 48000, channels |-> 1, bits_per_sample |-> 16,
     bitrate |-> 64000, duration_ms |-> 999, data_size |-> 9, valid |-> 1]

\* ------------------------------------------------------------------------
\* Byte sources and the host's mp3_host_api_t
\* ------------------------------------------------------------------------
\* A source is a sequence of units: a leading metadata tag, an audio frame,
\* or bytes that are neither.
Tokens == {"ID3", "FRAME", "JUNK"}
Files ==
    {f \in UNION {[1..n -> Tokens] : n \in 0..MaxFileLen} :
        \A i \in 2..Len(f) : f[i] # "ID3"}

\* fail_at: the offset at which the host's seek fails (-1: never).
NoFail == 0 - 1

HostApis ==
    {a \in [read_at : {NULL, host_read_at_fn}, user_ctx : {NULL, file_ctx},
            file : Files, fail_at : NoFail..MaxFileLen,
            source_size : 0..MaxFileLen] :
        /\ a.fail_at <= Len(a.file)
        /\ a.source_size \in {0, Len(a.file)}
        /\ (a.read_at = NULL \/ a.user_ctx = NULL) =>
              (a.file = <<>> /\ a.fail_at = NoFail /\ a.source_size = 0
               /\ ~(a.read_at = NULL /\ a.user_ctx = NULL))}

\* What the argument record holds for the pointee of a null host_api.
NoApi ==
    [read_at |-> NULL, user_ctx |-> NULL, file |-> <<>>, fail_at |-> NoFail,
     source_size |-> 0]

\* host_read_at(user_ctx, offset, dst, requested = 1, out_read)
host_read_at(api, offset) ==
    IF api.user_ctx = NULL
    THEN [code |-> MP3_ERR_INVALID_PTR, n |-> 0, tok |-> "none"]
    ELSE IF offset = api.fail_at
    THEN [code |-> MP3_ERR_IO, n |-> 0, tok |-> "none"]
    ELSE IF offset < Len(api.file)
    THEN [code |-> MP3_OK, n |-> 1, tok |-> api.file[offset + 1]]
    ELSE [code |-> MP3_OK, n |-> 0, tok |-> "none"]

\* ------------------------------------------------------------------------
\* The analysis engine behind mp3_rust_session_*_impl when it is linked.
\* One analysis is a forward scan of the source through read_at, one unit
\* per read: a leading tag is skipped, units that are no frame are passed
\* over, and the duration follows from the first frame and the source size
\* when the size is known, from a count of all frames otherwise.
\* ------------------------------------------------------------------------
ScanInit == [h |-> NULL, off |-> 0, start |-> 0, frames |-> 0]

EngineInfo(units) ==
    [sample_rate |-> 44100, channels |-> 2, bits_per_sample |-> 16,
     bitrate |-> 128000, duration_ms |-> units * 26, data_size |-> units * 417,
     valid |-> 1]

ScanFail(sc, c) == [done |-> TRUE, code |-> c, sc |-> sc, info |-> ZeroInfo]

ScanFinish(sc, units) ==
    IF units = 0
    THEN ScanFail(sc, MP3_ERR_INVALID_FORMAT)
    ELSE [done |-> TRUE, code |-> MP3_OK, sc |-> sc, info |-> EngineInfo(units)]

\* Whether the step of the scan at sc calls read_at.
ScanReads(api, sc) == api.source_size = 0 \/ sc.off < api.source_size

ScanStep(api, sc) ==
    IF ~ScanReads(api, sc)
    THEN ScanFinish(sc, 0)
    ELSE LET r == host_read_at(api, sc.off) IN
         IF r.code # MP3_OK THEN ScanFail(sc, MP3_ERR_IO)
         ELSE IF r.n = 0 THEN ScanFinish(sc, sc.frames)
         ELSE IF r.tok = "FRAME" /\ api.source_size # 0
         THEN ScanFinish(sc, api.source_size - sc.start)
         ELSE [done |-> FALSE, code |-> MP3_OK, info |-> ZeroInfo,
               sc |-> [h |-> sc.h, off |-> sc.off + 1,
                       start |-> IF sc.off = 0 /\ r.tok = "ID3" THEN 1 ELSE sc.start,
                       frames |-> IF r.tok = "FRAME" THEN sc.frames + 1
                                  ELSE sc.frames]]

\* The whole analysis of one source, run to its end.
RECURSIVE ScanAll(_, _)
ScanAll(api, sc) ==
    LET r == ScanStep(api, sc) IN IF r.done THEN r ELSE ScanAll(api, r.sc)

\* A source the format accepts: an optional leading tag, then frames only.
WellFormed(file) ==
    /\ \E i \in 1..Len(file) : file[i] = "FRAME"
    /\ \A i \in 1..Len(file) : file[i] = "FRAME" \/ (i = 1 /\ file[i] = "ID3")

\* Engine contexts: eng[h] = [live, api], api being the host capabilities
\* captured at init.
NoEngine == [h \in EngIds |-> [live |-> FALSE, api |-> NoApi]]

engine_session_init(api, eng, eh) ==
    IF eh = NULL
    THEN [code |-> MP3_ERR_OUT_OF_MEMORY, h |-> NULL, eng |-> eng]
    ELSE [code |-> MP3_OK, h |-> eh,
          eng |-> [eng EXCEPT ![eh] = [live |-> TRUE, api |-> api]]]

engine_session_deinit(eng, h) ==
    IF h \in EngIds THEN [eng EXCEPT ![h] = [live |-> FALSE, api |-> NoApi]]
    ELSE eng

\* ------------------------------------------------------------------------
\* mp3_rust_session_*_impl: the weak stubs, overridden by the engine when
\* it is linked.
\* ------------------------------------------------------------------------
\* A stub that reports the wrong code.
stub_session_init_internal(eng) ==
    [code |-> MP3_ERR_INTERNAL, h |-> NULL, eng |-> eng]

stub_session_init_impl(eng) ==
    [code |-> MP3_ERR_NOT_IMPLEMENTED, h |-> NULL, eng |-> eng]

mp3_rust_session_init_impl(linked, api, eng, eh) ==
    IF linked THEN engine_session_init(api, eng, eh)
    ELSE stub_session_init_impl(eng)

mp3_rust_session_deinit_impl(linked, eng, h) ==
    IF linked THEN engine_session_deinit(eng, h) ELSE eng

\* ------------------------------------------------------------------------
\* The session heap: heap[s] = [live, rust_session]
\* ------------------------------------------------------------------------
NoHeap == [s \in SessIds |-> [live |-> FALSE, rust_session |-> NULL]]

\* One session object of static storage serves every call.
AllocChoicesStatic(heap) == {Len(<<heap>>)}

\* What new (std::nothrow) mp3_session_t{} may return: null, or an object
\* that is not in use (the allocator hands out the lowest one).
AllocChoices(heap) ==
    {NULL} \cup {s \in SessIds : ~heap[s].live /\ \A u \in 1..(s - 1) : heap[u].live}

\* The contexts the engine's init may return: the highest one not in use.
EngineChoices(eng) ==
    {h \in EngIds : ~eng[h].live /\ \A u \in (h + 1)..MaxSessions : eng[u].live}

Event(e, a, c) == [ev |-> e, arg |-> a, code |-> c]

\* What the environment decides during one mp3_session_init: the session
\* object the allocator returns and the context the engine returns (NULL:
\* the allocation fails, the engine's init fails).
NoEnv == [alloc |-> NULL, eh |-> NULL]

\* What the engine's init may return when it is called: a context, or a
\* failure; the weak stub has no context to give.
EngineInitChoices(linked, eng) ==
    IF linked THEN {NULL} \cup EngineChoices(eng) ELSE {NULL}

\* The argument checks in the other order: the read callback first.
init_checks_swapped(detector, host_api, api, out_session) ==
    IF host_api # NULL /\ api.read_at = NULL THEN MP3_ERR_INVALID_ARG
    ELSE IF detector = NULL \/ host_api = NULL \/ out_session = NULL
    THEN MP3_ERR_INVALID_PTR
    ELSE MP3_OK

\* The argument checks of mp3_session_init: MP3_OK when they pass.
init_checks(detector, host_api, api, out_session) ==
    IF detector = NULL \/ host_api = NULL \/ out_session = NULL
    THEN MP3_ERR_INVALID_PTR
    ELSE IF api.read_at = NULL THEN MP3_ERR_INVALID_ARG
    ELSE MP3_OK

\* The handle is not stored: the session keeps the null of its construction.
stored_handle_forgotten(rust_session) == NULL

\* session->rust_session = rust_session
stored_handle(rust_session) == rust_session

\* The bridge functions act on the machine m = [linked, heap, eng, cell,
\* session, trace, result]: cell is *out_session, session the function's
\* local pointer, result the code returned (NoRet while the function has
\* not returned).  mp3_session_init and mp3_session_deinit hold no lock:
\* each call they make on the allocator or the engine, which all threads
\* share, is a step of its own.

\* *out_session is not cleared before the allocation: a failed init leaves
\* in it what the caller had there.
mp3_session_init_alloc_no_reset(detector, host_api, api, out_session, m, alloc) ==
    IF init_checks(detector, host_api, api, out_session) # MP3_OK
    THEN [m EXCEPT !.result = init_checks(detector, host_api, api, out_session)]
    ELSE IF alloc = NULL
    THEN [m EXCEPT !.result = MP3_ERR_OUT_OF_MEMORY]
    ELSE [m EXCEPT !.session = alloc,
                   !.heap = [m.heap EXCEPT ![alloc] =
                                [live |-> TRUE, rust_session |-> NULL]],
                   !.trace = Append(m.trace, Event("new", alloc, MP3_OK))]

\* *out_session is cleared before the arguments are checked.
mp3_session_init_alloc_reset_first(detector, host_api, api, out_session, m, alloc) ==
    IF init_checks(detector, host_api, api, out_session) # MP3_OK
    THEN [m EXCEPT !.cell = IF out_session # NULL THEN NULL ELSE m.cell,
                   !.result = init_checks(detector, host_api, api, out_session)]
    ELSE IF alloc = NULL
    THEN [m EXCEPT !.cell = NULL, !.result = MP3_ERR_OUT_OF_MEMORY]
    ELSE [m EXCEPT !.cell = NULL, !.session = alloc,
                   !.heap = [m.heap EXCEPT ![alloc] =
                                [live |-> TRUE, rust_session |-> NULL]],
                   !.trace = Append(m.trace, Event("new", alloc, MP3_OK))]

\* mp3_session_init up to the return of new: the argument checks,
\* *out_session = nullptr, and the allocation of the session, which new
\* value-initialises; alloc is what new returns.
mp3_session_init_alloc(detector, host_api, api, out_session, m, alloc) ==
    IF init_checks(detector, host_api, api, out_session) # MP3_OK
    THEN [m EXCEPT !.result = init_checks(detector, host_api, api, out_session)]
    ELSE IF alloc = NULL
    THEN [m EXCEPT !.cell = NULL, !.result = MP3_ERR_OUT_OF_MEMORY]
    ELSE [m EXCEPT !.cell = NULL, !.session = alloc,
                   !.heap = [m.heap EXCEPT ![alloc] =
                                [live |-> TRUE, rust_session |-> NULL]],
                   !.trace = Append(m.trace, Event("new", alloc, MP3_OK))]

\* mp3_session_init from the call of mp3_rust_session_init_impl on: when the
\* engine's init fails, result is init_result and the session is yet to be
\* deleted; otherwise the handle is stored, the session handed out and
\* MP3_OK returned.
mp3_session_init_engine(api, m, eh) ==
    LET r == mp3_rust_session_init_impl(m.linked, api, m.eng, eh) IN
    IF r.code # MP3_OK
    THEN [m EXCEPT !.result = r.code, !.eng = r.eng,
                   !.trace = Append(m.trace, Event("init", r.h, r.code))]
    ELSE [m EXCEPT !.result = MP3_OK, !.eng = r.eng, !.cell = m.session,
                   !.heap = [m.heap EXCEPT ![m.session] =
                                [live |-> TRUE,
                                 rust_session |-> stored_handle(r.h)]],
                   !.trace = Append(m.trace, Event("init", r.h, r.code))]

\* The failure path of init tears the engine context down as well, though
\* the engine's init gave none.
mp3_session_init_fail_teardown(m) ==
    [m EXCEPT !.heap = [m.heap EXCEPT ![m.session] =
                           [live |-> FALSE, rust_session |-> NULL]],
              !.trace = m.trace \o <<Event("deinit", NULL, MP3_OK),
                                     Event("delete", m.session, MP3_OK)>>]

\* mp3_session_init after a failed engine init: delete session.
mp3_session_init_fail(m) ==
    [m EXCEPT !.heap = [m.heap EXCEPT ![m.session] =
                           [live |-> FALSE, rust_session |-> NULL]],
              !.trace = Append(m.trace, Event("delete", m.session, MP3_OK))]

\* The session itself is passed in place of its engine handle.
run_handle_session(heap, session) == session

\* The handle mp3_session_run passes to the engine: session->rust_session.
run_handle(heap, session) == heap[session].rust_session

\* A teardown that never tells the engine.
mp3_session_deinit_engine_skipped(session, m) == m

\* mp3_session_deinit up to the return of mp3_rust_session_deinit_impl; a
\* null session is left alone.
mp3_session_deinit_engine(session, m) ==
    IF session = NULL
    THEN m
    ELSE LET h == m.heap[session].rust_session IN
         [m EXCEPT !.eng = mp3_rust_session_deinit_impl(m.linked, m.eng, h),
                   !.trace = Append(m.trace, Event("deinit", h, MP3_OK))]

\* A teardown that never frees the session.
mp3_session_deinit_delete_skipped(session, m) == m

\* mp3_session_deinit: delete session.
mp3_session_deinit_delete(session, m) ==
    [m EXCEPT !.heap = [m.heap EXCEPT ![session] =
                           [live |-> FALSE, rust_session |-> NULL]],
              !.trace = Append(m.trace, Event("delete", session, MP3_OK))]

\* The record is not cleared.
memset_skipped(rec) == rec

\* Only the valid flag of the record is cleared.
memset_valid_only(rec) == [rec EXCEPT !.valid = 0]

\* memset(out_info, 0, sizeof(*out_info))
memset_info(rec) == ZeroInfo

\* ------------------------------------------------------------------------
\* The detector: g_detector, of static storage, and its accessors
\* ------------------------------------------------------------------------
\* mp3_detector_create and mp3_detector_instance: return &g_detector.
mp3_detector_create == g_detector
mp3_detector_instance == g_detector

\* A destroy that marks the object it is given as gone.
mp3_detector_destroy_marks(detector, obj) == IF detector # NULL THEN 1 ELSE obj

\* mp3_detector_destroy(detector) on the object's reserved byte: (void)detector.
mp3_detector_destroy(detector, obj) == obj

\* ------------------------------------------------------------------------
\* State
\* ------------------------------------------------------------------------
VARIABLES
    rust_linked,  \* whether the engine overrides the weak stubs (the build)
    active,       \* the client threads that run
    pc,           \* pc[t]: where thread t is
    call,         \* call[t]: the API call t is in (or made last)
    ret,          \* ret[t]: the result code the call returned
    info,         \* info[t]: t's mp3_audio_info_t record
    sess,         \* sess[t]: t's mp3_session_t* variable
    heap,         \* the mp3_session_t objects
    eng,          \* the engine's contexts
    cur,          \* cur[t]: the session the call's functions work on
    initres,      \* initres[t]: init_result of a failed engine init
    scan,         \* scan[t]: the running analysis of t's engine call
    runres,       \* runres[t]: run_result of mp3_analyze
    trace,        \* trace[t]: allocator, engine and host calls of this call
    prior,        \* prior[t]: info[t] when the call was made
    env,          \* env[t]: what the allocator and the engine's init decided
    prev,         \* prev[t]: outcome of the mp3_analyze call this one repeats
    nruns,        \* nruns[t]: mp3_session_run calls on t's session so far
    inith,        \* inith[t]: the engine handle init stored in t's session
    reserved,     \* g_detector.reserved
    dh,           \* dh[t]: the detector handle t got from create / instance
    destroyed     \* whether mp3_detector_destroy has been called

vars ==
    <<rust_linked, active, pc, call, ret, info, sess, heap, eng, cur, initres,
      scan, runres, trace, prior, env, prev, nruns, inith, reserved, dh,
      destroyed>>

\* The detector object, the handles the clients keep, and the record of a
\* destroy.
dvars == <<reserved, dh, destroyed>>

\* before: what the caller's session variable held when the call was made.
NoCall ==
    [op |-> "none", detector |-> NULL, host_api |-> NULL, api |-> NoApi,
     out_info |-> NULL, out_session |-> NULL, session |-> NULL,
     before |-> NULL]

NoPrev == [ok |-> FALSE, ret |-> NoRet, info |-> ZeroInfo, env |-> NoEnv]

InitWith(threads) ==
    /\ rust_linked \in BOOLEAN
    /\ active = threads
    /\ pc = [t \in Threads |-> "idle"]
    /\ call = [t \in Threads |-> NoCall]
    /\ ret = [t \in Threads |-> NoRet]
    /\ info \in [Threads -> {ZeroInfo}]
    /\ sess = [t \in Threads |-> NULL]
    /\ heap = NoHeap
    /\ eng = NoEngine
    /\ cur = [t \in Threads |-> NULL]
    /\ initres = [t \in Threads |-> NoRet]
    /\ scan = [t \in Threads |-> ScanInit]
    /\ runres = [t \in Threads |-> NoRet]
    /\ trace = [t \in Threads |-> <<>>]
    /\ prior = [t \in Threads |-> ZeroInfo]
    /\ env = [t \in Threads |-> NoEnv]
    /\ prev = [t \in Threads |-> NoPrev]
    /\ nruns = [t \in Threads |-> 0]
    /\ inith = [t \in Threads |-> NULL]
    /\ reserved = 0
    /\ dh = [t \in Threads |-> NULL]
    /\ destroyed = FALSE

Init == InitWith({"t1"})

\* ------------------------------------------------------------------------
\* The client: it makes a call when it is idle, and takes the result.
\* ------------------------------------------------------------------------
Enter(t, c, label) ==
    /\ pc[t] = "idle"
    /\ call' = [call EXCEPT ![t] = c]
    /\ pc' = [pc EXCEPT ![t] = label]
    /\ prior' = [prior EXCEPT ![t] = info[t]]
    /\ UNCHANGED <<rust_linked, active, ret, info, heap, eng, cur, scan,
                   runres, trace, env, prev, nruns, inith>>
    /\ UNCHANGED <<dvars, initres>>

\* A host_api with no read callback, and one with everything in place.
NoReadApi == [NoApi EXCEPT !.user_ctx = file_ctx]
PlainApi ==
    [read_at |-> host_read_at_fn, user_ctx |-> file_ctx, file |-> <<"FRAME">>,
     fail_at |-> NoFail, source_size |-> 1]

\* The arguments (detector, host_api, a third pointer) of a call: every host
\* API of apis with the pointers in place, and every combination of null
\* pointers with a host API that has its read callback and one that lacks it.
InitArgs(apis) ==
    {[detector |-> g_detector, host_api |-> own_object, api |-> a,
      third |-> own_object] : a \in apis}
    \cup
    {x \in [detector : {NULL, g_detector}, host_api : {NULL, own_object},
            api : {NoApi, NoReadApi, PlainApi}, third : {NULL, own_object}] :
        /\ (x.api = NoApi) = (x.host_api = NULL)
        /\ x.detector = NULL \/ x.host_api = NULL \/ x.third = NULL}

\* The arguments the sequential client draws from.
AllArgs == InitArgs(HostApis)

\* r.code = mp3_analyze(detector, &host_api, &r.info), by a client that
\* holds no session of its own.
CallAnalyzeWith(t, args) ==
    /\ sess[t] \notin SessIds
    /\ \E x \in args :
        Enter(t, [NoCall EXCEPT !.op = "analyze", !.detector = x.detector,
                                !.host_api = x.host_api, !.api = x.api,
                                !.out_info = x.third,
                                !.before = sess[t]], "analyze")
    /\ UNCHANGED sess

CallAnalyze(t) == CallAnalyzeWith(t, AllArgs)

\* The arguments two concurrent clients draw from: a null detector, a host
\* API without read callback, and sources that end in each of the engine's
\* outcomes after one or several reads.
ConcApi(file, fail_at, size) ==
    [read_at |-> host_read_at_fn, user_ctx |-> file_ctx, file |-> file,
     fail_at |-> fail_at, source_size |-> size]

ConcArgs ==
    {[detector |-> NULL, host_api |-> own_object, api |-> PlainApi,
      third |-> own_object]}
    \cup
    {[detector |-> g_detector, host_api |-> own_object, api |-> a,
      third |-> own_object] :
        a \in {NoReadApi, PlainApi,
               ConcApi(<<"JUNK">>, NoFail, 0),
               ConcApi(<<"FRAME", "FRAME">>, NoFail, 0),
               ConcApi(<<"FRAME", "FRAME">>, Len(<<"FRAME">>), 0)}}

CallAnalyzeConc(t) == CallAnalyzeWith(t, ConcArgs)

\* mp3_analyze by a client that holds a session it initialised and has not
\* run yet.
CallAnalyzeHeld(t) ==
    /\ sess[t] \in SessIds
    /\ nruns[t] = 0
    /\ \E x \in ConcArgs :
        Enter(t, [NoCall EXCEPT !.op = "analyze", !.detector = x.detector,
                                !.host_api = x.host_api, !.api = x.api,
                                !.out_info = x.third,
                                !.before = sess[t]], "analyze")
    /\ UNCHANGED sess

\* The caller's record holds whatever the caller left in it.
Scribble(t) ==
    /\ pc[t] = "idle"
    /\ \E v \in {ZeroInfo, StaleInfo} :
           /\ v # info[t]
           /\ info' = [info EXCEPT ![t] = v]
    /\ UNCHANGED <<rust_linked, active, pc, call, ret, sess, heap, eng, cur,
                   scan, runres, trace, prior, env, prev, nruns, inith>>
    /\ UNCHANGED <<dvars, initres>>

\* mp3_session_init(detector, &host_api, &session), the caller's session
\* variable holding no session of its own yet.
CallSessionInit(t) ==
    /\ sess[t] \notin SessIds
    /\ \E x \in AllArgs, before \in {NULL, GARBAGE} :
        /\ sess' = [sess EXCEPT ![t] = before]
        /\ Enter(t, [NoCall EXCEPT !.op = "session_init", !.detector = x.detector,
                                   !.host_api = x.host_api, !.api = x.api,
                                   !.out_session = x.third,
                                   !.before = before], "session_init")

\* mp3_session_run(session, &info) on the caller's session, or on null.
CallSessionRun(t) ==
    /\ nruns[t] < MaxRuns
    /\ \E s \in {NULL} \cup ({sess[t]} \cap SessIds), o \in {NULL, own_object} :
        Enter(t, [NoCall EXCEPT !.op = "session_run", !.session = s,
                                !.out_info = o, !.before = sess[t]], "run")
    /\ UNCHANGED sess

\* mp3_session_deinit(session) on the caller's session, or on null.
CallSessionDeinit(t) ==
    /\ \E s \in {NULL} \cup ({sess[t]} \cap SessIds) :
        Enter(t, [NoCall EXCEPT !.op = "session_deinit", !.session = s,
                                !.before = sess[t]], "deinit")
    /\ UNCHANGED sess

\* The call has returned: the caller takes the result.  A caller that
\* tore its session down, or got none, resets its pointer.
Return(t) ==
    /\ pc[t] = "done"
    /\ pc' = [pc EXCEPT ![t] = "idle"]
    /\ call' = [call EXCEPT ![t] = NoCall]
    /\ LET torn == \/ call[t].op = "session_deinit" /\ call[t].session # NULL
                   \/ sess[t] \notin SessIds IN
           /\ sess' = [sess EXCEPT ![t] = IF torn THEN NULL ELSE sess[t]]
           /\ nruns' = [nruns EXCEPT ![t] = IF torn THEN 0 ELSE nruns[t]]
           /\ inith' = [inith EXCEPT ![t] = IF torn THEN NULL ELSE inith[t]]
    /\ ret' = [ret EXCEPT ![t] = NoRet]
    /\ cur' = [cur EXCEPT ![t] = NULL]
    /\ scan' = [scan EXCEPT ![t] = ScanInit]
    /\ runres' = [runres EXCEPT ![t] = NoRet]
    /\ trace' = [trace EXCEPT ![t] = <<>>]
    /\ env' = [env EXCEPT ![t] = NoEnv]
    /\ prev' = [prev EXCEPT ![t] = NoPrev]
    /\ prior' = [prior EXCEPT ![t] = ZeroInfo]
    /\ UNCHANGED <<rust_linked, active, info, heap, eng>>
    /\ initres' = [initres EXCEPT ![t] = NoRet]
    /\ UNCHANGED dvars

\* mp3_analyze has returned and the caller calls it again at once, with the
\* same arguments; its record holds what the first call left, or anything
\* the caller put there in between.
Repeat(t) ==
    /\ pc[t] = "done"
    /\ call[t].op = "analyze"
    /\ sess[t] \notin SessIds
    /\ pc' = [pc EXCEPT ![t] = "analyze"]
    /\ prev' = [prev EXCEPT ![t] =
                   [ok |-> TRUE, ret |-> ret[t], info |-> info[t], env |-> env[t]]]
    /\ \E v \in {info[t], ZeroInfo, StaleInfo} :
           /\ info' = [info EXCEPT ![t] = v]
           /\ prior' = [prior EXCEPT ![t] = v]
    /\ ret' = [ret EXCEPT ![t] = NoRet]
    /\ cur' = [cur EXCEPT ![t] = NULL]
    /\ scan' = [scan EXCEPT ![t] = ScanInit]
    /\ runres' = [runres EXCEPT ![t] = NoRet]
    /\ trace' = [trace EXCEPT ![t] = <<>>]
    /\ env' = [env EXCEPT ![t] = NoEnv]
    /\ UNCHANGED <<rust_linked, active, call, sess, heap, eng, nruns, inith>>
    /\ initres' = [initres EXCEPT ![t] = NoRet]
    /\ UNCHANGED dvars

\* detector = mp3_detector_create()
DetectorCreate(t) ==
    /\ pc[t] = "idle"
    /\ dh' = [dh EXCEPT ![t] = mp3_detector_create]
    /\ UNCHANGED <<rust_linked, active, pc, call, ret, info, sess, heap, eng,
                   cur, initres, scan, runres, trace, prior, env, prev, nruns,
                   inith, reserved, destroyed>>

\* detector = mp3_detector_instance()
DetectorInstance(t) ==
    /\ pc[t] = "idle"
    /\ dh' = [dh EXCEPT ![t] = mp3_detector_instance]
    /\ UNCHANGED <<rust_linked, active, pc, call, ret, info, sess, heap, eng,
                   cur, initres, scan, runres, trace, prior, env, prev, nruns,
                   inith, reserved, destroyed>>

\* mp3_detector_destroy(detector) on the handle the client has, or on null;
\* the client keeps the handle.
DetectorDestroy(t) ==
    /\ pc[t] = "idle"
    /\ \E d \in {NULL, dh[t]} :
           /\ reserved' = mp3_detector_destroy(d, reserved)
           /\ destroyed' = (destroyed \/ d # NULL)
    /\ UNCHANGED <<rust_linked, active, pc, call, ret, info, sess, heap, eng,
                   cur, initres, scan, runres, trace, prior, env, prev, nruns,
                   inith, dh>>

\* ------------------------------------------------------------------------
\* The bridge
\* ------------------------------------------------------------------------
Machine(t, cell) ==
    [linked |-> rust_linked, heap |-> heap, eng |-> eng, cell |-> cell,
     session |-> cur[t], trace |-> trace[t], result |-> NoRet]

\* What new may return to mp3_session_init: it is called only once the
\* arguments have passed the checks.
AllocFor(c, out_session) ==
    IF init_checks(c.detector, c.host_api, c.api, out_session) # MP3_OK
    THEN {NULL}
    ELSE AllocChoices(heap)

\* mp3_analyze returns init_result at its end as well.
analyze_result_init(init_result, run_result) == init_result

\* What mp3_analyze returns: init_result when the init failed, run_result
\* otherwise.
analyze_result(init_result, run_result) ==
    IF init_result # MP3_OK THEN init_result ELSE run_result

\* mp3_analyze tries the init again until it succeeds.
AfterInitRetry(result) == IF result # MP3_OK THEN "analyze" ELSE "run"

\* Where mp3_analyze goes after mp3_session_init returned result.
AfterInit(result) == IF result # MP3_OK THEN "done" ELSE "run"

\* mp3_analyze up to the return of new in mp3_session_init: its own pointer
\* check, then the checks and the allocation of mp3_session_init.
AnalyzeInit(t) ==
    /\ pc[t] = "analyze"
    /\ LET c == call[t] IN
       IF c.detector = NULL \/ c.host_api = NULL \/ c.out_info = NULL
       THEN /\ ret' = [ret EXCEPT ![t] = MP3_ERR_INVALID_PTR]
            /\ pc' = [pc EXCEPT ![t] = "done"]
            /\ UNCHANGED <<heap, cur, trace, env>>
       ELSE \E a \in AllocFor(c, own_object) :
            LET m == mp3_session_init_alloc(c.detector, c.host_api, c.api,
                                            own_object, Machine(t, NULL), a) IN
            /\ heap' = m.heap
            /\ trace' = [trace EXCEPT ![t] = m.trace]
            /\ env' = [env EXCEPT ![t] = [alloc |-> a, eh |-> NULL]]
            /\ cur' = [cur EXCEPT ![t] = m.session]
            /\ IF m.result = NoRet
               THEN /\ pc' = [pc EXCEPT ![t] = "init_engine"]
                    /\ UNCHANGED ret
               ELSE /\ pc' = [pc EXCEPT ![t] = AfterInit(m.result)]
                    /\ ret' = [ret EXCEPT ![t] =
                                  analyze_result(m.result, runres[t])]
    /\ UNCHANGED <<rust_linked, active, call, info, sess, eng, initres, scan,
                   runres, prior, prev, nruns, inith>>
    /\ UNCHANGED dvars

\* mp3_session_init called by the client, *out_session being sess[t], up to
\* the return of new.
SessionInit(t) ==
    /\ pc[t] = "session_init"
    /\ LET c == call[t] IN
       \E a \in AllocFor(c, c.out_session) :
       LET m == mp3_session_init_alloc(c.detector, c.host_api, c.api,
                                       c.out_session, Machine(t, sess[t]), a) IN
       /\ heap' = m.heap
       /\ trace' = [trace EXCEPT ![t] = m.trace]
       /\ env' = [env EXCEPT ![t] = [alloc |-> a, eh |-> NULL]]
       /\ cur' = [cur EXCEPT ![t] = m.session]
       /\ sess' = [sess EXCEPT ![t] = m.cell]
       /\ IF m.result = NoRet
          THEN /\ pc' = [pc EXCEPT ![t] = "init_engine"]
               /\ UNCHANGED ret
          ELSE /\ pc' = [pc EXCEPT ![t] = "done"]
               /\ ret' = [ret EXCEPT ![t] = m.result]
    /\ UNCHANGED <<rust_linked, active, call, info, eng, initres, scan, runres,
                   prior, prev, nruns, inith>>
    /\ UNCHANGED dvars

\* mp3_session_init from the call of mp3_rust_session_init_impl: on success
\* to its return, the session going to the caller's variable or to
\* mp3_analyze; on failure up to the delete.
InitEngine(t) ==
    /\ pc[t] = "init_engine"
    /\ \E eh \in EngineInitChoices(rust_linked, eng) :
       LET m == mp3_session_init_engine(call[t].api, Machine(t, sess[t]), eh) IN
       /\ heap' = m.heap
       /\ eng' = m.eng
       /\ trace' = [trace EXCEPT ![t] = m.trace]
       /\ env' = [env EXCEPT ![t] = [alloc |-> env[t].alloc, eh |-> eh]]
       /\ IF m.result # MP3_OK
          THEN /\ initres' = [initres EXCEPT ![t] = m.result]
               /\ pc' = [pc EXCEPT ![t] = "init_fail"]
               /\ UNCHANGED <<ret, sess, cur, nruns, inith>>
          ELSE IF call[t].op = "analyze"
          THEN /\ cur' = [cur EXCEPT ![t] = m.cell]
               /\ pc' = [pc EXCEPT ![t] = AfterInit(m.result)]
               /\ UNCHANGED <<ret, sess, initres, nruns, inith>>
          ELSE /\ sess' = [sess EXCEPT ![t] = m.cell]
               /\ cur' = [cur EXCEPT ![t] = NULL]
               /\ ret' = [ret EXCEPT ![t] = m.result]
               /\ inith' = [inith EXCEPT ![t] = m.heap[m.cell].rust_session]
               /\ nruns' = [nruns EXCEPT ![t] = 0]
               /\ pc' = [pc EXCEPT ![t] = "done"]
               /\ UNCHANGED initres
    /\ UNCHANGED <<rust_linked, active, call, info, scan, runres, prior, prev>>
    /\ UNCHANGED dvars

\* mp3_session_init after a failed engine init: delete session, return
\* init_result; mp3_analyze returns it in turn.
InitFail(t) ==
    /\ pc[t] = "init_fail"
    /\ LET m == mp3_session_init_fail(Machine(t, sess[t])) IN
       /\ heap' = m.heap
       /\ trace' = [trace EXCEPT ![t] = m.trace]
    /\ cur' = [cur EXCEPT ![t] = NULL]
    /\ IF call[t].op = "analyze"
       THEN /\ pc' = [pc EXCEPT ![t] = AfterInit(initres[t])]
            /\ ret' = [ret EXCEPT ![t] = analyze_result(initres[t], runres[t])]
       ELSE /\ pc' = [pc EXCEPT ![t] = "done"]
            /\ ret' = [ret EXCEPT ![t] = initres[t]]
    /\ UNCHANGED <<rust_linked, active, call, info, sess, eng, initres, scan,
                   runres, prior, env, prev, nruns, inith>>
    /\ UNCHANGED dvars

\* The session a run or a deinit step works on.
Session(t) == IF call[t].op = "analyze" THEN cur[t] ELSE call[t].session

\* mp3_session_run has its result: mp3_analyze keeps it as run_result and
\* goes on to deinit, the client's own call returns it.
RunReturns(t, code) ==
    IF call[t].op = "analyze"
    THEN /\ runres' = [runres EXCEPT ![t] = code]
         /\ pc' = [pc EXCEPT ![t] = "deinit"]
         /\ UNCHANGED ret
    ELSE /\ ret' = [ret EXCEPT ![t] = code]
         /\ pc' = [pc EXCEPT ![t] = "done"]
         /\ UNCHANGED runres

\* mp3_session_run, up to the call of mp3_rust_session_run_impl; with the
\* weak stub, the whole of it.
Run(t) ==
    /\ pc[t] = "run"
    /\ LET session == Session(t) IN
       IF session = NULL \/ call[t].out_info = NULL
       THEN /\ RunReturns(t, MP3_ERR_INVALID_PTR)
            /\ UNCHANGED <<info, trace, cur, nruns, scan>>
       ELSE /\ trace' = [trace EXCEPT ![t] =
                   trace[t] \o <<Event("run", run_handle(heap, session), MP3_OK)>>
                   \o (IF rust_linked THEN <<>>
                       ELSE <<Event("ran", run_handle(heap, session),
                                    MP3_ERR_NOT_IMPLEMENTED)>>)]
            /\ cur' = [cur EXCEPT ![t] = session]
            /\ nruns' = [nruns EXCEPT ![t] =
                   IF call[t].op = "session_run" THEN nruns[t] + 1 ELSE nruns[t]]
            /\ IF rust_linked
               THEN /\ info' = [info EXCEPT ![t] = memset_info(info[t])]
                    /\ scan' = [scan EXCEPT ![t] =
                           [ScanInit EXCEPT !.h = run_handle(heap, session)]]
                    /\ pc' = [pc EXCEPT ![t] = "scan"]
                    /\ UNCHANGED <<ret, runres>>
               ELSE /\ info' = [info EXCEPT ![t] = memset_info(memset_info(info[t]))]
                    /\ RunReturns(t, MP3_ERR_NOT_IMPLEMENTED)
                    /\ UNCHANGED scan
    /\ UNCHANGED <<rust_linked, active, call, sess, heap, eng, initres, prior,
                   env, prev, inith>>
    /\ UNCHANGED dvars

\* The engine knows the handle it is given.
EngineKnows(h) == h \in EngIds /\ eng[h].live

\* The host capabilities the engine analyses with under handle h.
EngineApi(h) == IF EngineKnows(h) THEN eng[h].api ELSE NoApi

\* One step of the engine's mp3_rust_session_run_impl: at most one read_at.
Scan(t) ==
    /\ pc[t] = "scan"
    /\ LET api == EngineApi(scan[t].h)
           r == IF EngineKnows(scan[t].h) THEN ScanStep(api, scan[t])
                ELSE ScanFail(scan[t], MP3_ERR_INVALID_PTR) IN
       /\ trace' = [trace EXCEPT ![t] =
              (IF EngineKnows(scan[t].h) /\ ScanReads(api, scan[t])
               THEN Append(trace[t], Event("read", scan[t].off,
                                           host_read_at(api, scan[t].off).code))
               ELSE trace[t])
              \o (IF r.done THEN <<Event("ran", scan[t].h, r.code)>> ELSE <<>>)]
       /\ IF r.done
          THEN /\ info' = [info EXCEPT ![t] =
                      IF r.code = MP3_OK THEN r.info ELSE info[t]]
               /\ RunReturns(t, r.code)
               /\ UNCHANGED scan
          ELSE /\ scan' = [scan EXCEPT ![t] = r.sc]
               /\ UNCHANGED <<info, pc, ret, runres>>
    /\ UNCHANGED <<rust_linked, active, call, sess, heap, eng, cur, initres,
                   prior, env, prev, nruns, inith>>
    /\ UNCHANGED dvars

\* The call returns from mp3_session_deinit: mp3_analyze returns run_result,
\* the client's own deinit returns nothing.
DeinitReturns(t) ==
    /\ ret' = [ret EXCEPT ![t] =
                  IF call[t].op = "analyze"
                  THEN analyze_result(MP3_OK, runres[t]) ELSE ret[t]]
    /\ pc' = [pc EXCEPT ![t] = "done"]

\* mp3_session_deinit up to the return of mp3_rust_session_deinit_impl; with a
\* null session, the whole of it.
Deinit(t) ==
    /\ pc[t] = "deinit"
    /\ LET m == mp3_session_deinit_engine(Session(t), Machine(t, NULL)) IN
       /\ eng' = m.eng
       /\ trace' = [trace EXCEPT ![t] = m.trace]
    /\ IF Session(t) = NULL
       THEN DeinitReturns(t)
       ELSE pc' = [pc EXCEPT ![t] = "deinit_delete"] /\ UNCHANGED ret
    /\ UNCHANGED <<rust_linked, active, call, info, sess, heap, cur, initres,
                   scan, runres, prior, env, prev, nruns, inith>>
    /\ UNCHANGED dvars

\* mp3_session_deinit: delete session; in mp3_analyze, followed by return
\* run_result.
DeinitDelete(t) ==
    /\ pc[t] = "deinit_delete"
    /\ LET m == mp3_session_deinit_delete(Session(t), Machine(t, NULL)) IN
       /\ heap' = m.heap
       /\ trace' = [trace EXCEPT ![t] = m.trace]
    /\ DeinitReturns(t)
    /\ UNCHANGED <<rust_linked, active, call, info, sess, eng, cur, initres,
                   scan, runres, prior, env, prev, nruns, inith>>
    /\ UNCHANGED dvars

\* ------------------------------------------------------------------------
\* Specifications
\* ------------------------------------------------------------------------
Next ==
    \/ \E t \in active : CallAnalyze(t)
    \/ \E t \in active : CallAnalyzeHeld(t)
    \/ \E t \in active : Scribble(t)
    \/ \E t \in active : CallSessionInit(t)
    \/ \E t \in active : CallSessionRun(t)
    \/ \E t \in active : CallSessionDeinit(t)
    \/ \E t \in active : AnalyzeInit(t)
    \/ \E t \in active : SessionInit(t)
    \/ \E t \in active : InitEngine(t)
    \/ \E t \in active : InitFail(t)
    \/ \E t \in active : Run(t)
    \/ \E t \in active : Scan(t)
    \/ \E t \in active : Deinit(t)
    \/ \E t \in active : DeinitDelete(t)
    \/ \E t \in active : Return(t)
    \/ \E t \in active : Repeat(t)

Spec == Init /\ [][Next]_vars

\* Two client threads, each making mp3_analyze calls on its own host API
\* and its own record, in any interleaving of the steps.
InitConc == InitWith(Threads)

NextConc ==
    \/ \E t \in active : CallAnalyzeConc(t)
    \/ \E t \in active : Scribble(t)
    \/ \E t \in active : AnalyzeInit(t)
    \/ \E t \in active : InitEngine(t)
    \/ \E t \in active : InitFail(t)
    \/ \E t \in active : Run(t)
    \/ \E t \in active : Scan(t)
    \/ \E t \in active : Deinit(t)
    \/ \E t \in active : DeinitDelete(t)
    \/ \E t \in active : Return(t)

ConcSpec == InitConc /\ [][NextConc]_vars

\* The sequential client, with the detector's create, instance and destroy
\* among its calls.
NextDet ==
    \/ \E t \in active : CallAnalyze(t)
    \/ \E t \in active : CallAnalyzeHeld(t)
    \/ \E t \in active : Scribble(t)
    \/ \E t \in active : CallSessionInit(t)
    \/ \E t \in active : CallSessionRun(t)
    \/ \E t \in active : CallSessionDeinit(t)
    \/ \E t \in active : AnalyzeInit(t)
    \/ \E t \in active : SessionInit(t)
    \/ \E t \in active : InitEngine(t)
    \/ \E t \in active : InitFail(t)
    \/ \E t \in active : Run(t)
    \/ \E t \in active : Scan(t)
    \/ \E t \in active : Deinit(t)
    \/ \E t \in active : DeinitDelete(t)
    \/ \E t \in active : Return(t)
    \/ \E t \in active : Repeat(t)
    \/ \E t \in active : DetectorCreate(t)
    \/ \E t \in active : DetectorInstance(t)
    \/ \E t \in active : DetectorDestroy(t)

DetSpec == Init /\ [][NextDet]_vars

\* A thread that is inside a call keeps running: the bridge blocks nowhere,
\* and every host callback and engine function returns.
Step(t) ==
    \/ AnalyzeInit(t) \/ SessionInit(t) \/ InitEngine(t) \/ InitFail(t)
    \/ Run(t) \/ Scan(t) \/ Deinit(t) \/ DeinitDelete(t)

FairSpec == Init /\ [][Next]_vars /\ \A t \in Threads : WF_vars(Step(t))

\* ------------------------------------------------------------------------
\* Properties
\* ------------------------------------------------------------------------
\* Thread t's call of op has returned and t has not yet taken the result.
Done(t, op) == pc[t] = "done" /\ call[t].op = op

\* What the argument checks of mp3_analyze and of the mp3_session_init it
\* calls make of the call's arguments.
AnalyzeChecks(c) == init_checks(c.detector, c.host_api, c.api, c.out_info)

\* A read_at call of this call returned an error.
ReadFailed(t) ==
    \E i \in 1..Len(trace[t]) :
        trace[t][i].ev = "read" /\ trace[t][i].code # MP3_OK

\* C1 (as claimed): whenever mp3_analyze returns a code other than MP3_OK,
\* out_info->valid is 0, whatever the record held before and whichever
\* path failed.
C1_FailureClearsValid ==
    \A t \in Threads :
        (Done(t, "analyze") /\ call[t].out_info # NULL /\ ret[t] # MP3_OK)
            => info[t].valid = 0

\* C2 (as claimed): with the weak stubs in effect, every call of
\* mp3_analyze returns MP3_ERR_NOT_IMPLEMENTED.
C2_StubAlwaysNotImplemented ==
    \A t \in Threads :
        (Done(t, "analyze") /\ ~rust_linked) => ret[t] = MP3_ERR_NOT_IMPLEMENTED

\* C2 (amended): with the weak stubs in effect, mp3_analyze returns
\* MP3_ERR_NOT_IMPLEMENTED exactly when its arguments pass the checks and
\* the session is allocated; otherwise it returns the code of the failed
\* check or MP3_ERR_OUT_OF_MEMORY; it never returns MP3_OK.
C2_StubNotImplemented ==
    \A t \in Threads :
        (Done(t, "analyze") /\ ~rust_linked) =>
            ret[t] = IF AnalyzeChecks(call[t]) # MP3_OK THEN AnalyzeChecks(call[t])
                     ELSE IF env[t].alloc = NULL THEN MP3_ERR_OUT_OF_MEMORY
                     ELSE MP3_ERR_NOT_IMPLEMENTED

\* A stub build's mp3_analyze got through the checks and the allocation and
\* returned MP3_ERR_NOT_IMPLEMENTED.
C2_Witness ==
    \E t \in Threads :
        /\ Done(t, "analyze") /\ ~rust_linked
        /\ AnalyzeChecks(call[t]) = MP3_OK /\ env[t].alloc # NULL
        /\ ret[t] = MP3_ERR_NOT_IMPLEMENTED

\* C3: mp3_session_init returns MP3_ERR_INVALID_PTR exactly when detector,
\* host_api or out_session is null, and MP3_ERR_INVALID_ARG when they are not
\* and read_at is null; mp3_session_run returns MP3_ERR_INVALID_PTR exactly
\* when session or out_info is null; mp3_analyze returns MP3_ERR_INVALID_PTR
\* when detector, host_api or out_info is null and MP3_ERR_INVALID_ARG when
\* they are not and read_at is null.  The pointer check comes first.
C3_ArgumentValidation ==
    \A t \in Threads :
        pc[t] = "done" =>
            LET c == call[t]
                initNull == c.detector = NULL \/ c.host_api = NULL
                            \/ c.out_session = NULL
                anNull == c.detector = NULL \/ c.host_api = NULL
                          \/ c.out_info = NULL
            IN  /\ c.op = "session_init" =>
                    /\ (ret[t] = MP3_ERR_INVALID_PTR) <=> initNull
                    /\ (~initNull /\ c.api.read_at = NULL)
                           => ret[t] = MP3_ERR_INVALID_ARG
                /\ c.op = "session_run" =>
                    ((ret[t] = MP3_ERR_INVALID_PTR)
                        <=> (c.session = NULL \/ c.out_info = NULL))
                /\ c.op = "analyze" =>
                    /\ anNull => ret[t] = MP3_ERR_INVALID_PTR
                    /\ (~anNull /\ c.api.read_at = NULL)
                           => ret[t] = MP3_ERR_INVALID_ARG

\* mp3_session_init was given a null detector together with a host_api that
\* lacks read_at, and reported the pointer.
C3_Witness ==
    \E t \in Threads :
        /\ Done(t, "session_init")
        /\ call[t].detector = NULL /\ call[t].host_api # NULL
        /\ call[t].out_session # NULL /\ call[t].api.read_at = NULL
        /\ ret[t] = MP3_ERR_INVALID_PTR

\* C4: mp3_session_deinit on a session that mp3_session_init returned and
\* that no mp3_session_run was called on calls mp3_rust_session_deinit_impl
\* once, with the handle init produced, calls no mp3_rust_session_run_impl,
\* and frees the session.
C4_DeinitWithoutRun ==
    \A t \in Threads :
        (Done(t, "session_deinit") /\ call[t].session # NULL /\ nruns[t] = 0) =>
            /\ trace[t] = <<Event("deinit", inith[t], MP3_OK),
                            Event("delete", call[t].session, MP3_OK)>>
            /\ inith[t] \in EngIds
            /\ ~eng[inith[t]].live
            /\ ~heap[call[t].session].live

\* A session was torn down with no run between its init and its deinit.
C4_Witness ==
    \E t \in Threads :
        /\ Done(t, "session_deinit") /\ call[t].session # NULL /\ nruns[t] = 0
        /\ Len(trace[t]) > 0

\* C5: every mp3_session_run on an initialised session passes to
\* mp3_rust_session_run_impl the engine handle init stored, and leaves the
\* handle stored in the session as it was.
C5_RunKeepsHandle ==
    \A t \in Threads :
        (call[t].op = "session_run" /\ pc[t] \in {"scan", "done"}
         /\ call[t].session # NULL /\ call[t].out_info # NULL) =>
            /\ trace[t][1] = Event("run", inith[t], MP3_OK)
            /\ pc[t] = "scan" => scan[t].h = inith[t]
            /\ heap[call[t].session].rust_session = inith[t]
            /\ heap[call[t].session].live

\* The second run on one session has returned.
C5_Witness ==
    \E t \in Threads :
        /\ Done(t, "session_run") /\ nruns[t] >= 2
        /\ call[t].session # NULL /\ call[t].out_info # NULL
        /\ ret[t] = MP3_OK

\* C6 (as claimed): mp3_analyze called twice in succession with the same
\* arguments, the allocator and the engine's init deciding the same both
\* times, returns the same code and leaves the same out_info record, whatever
\* the record held before each call.
C6_Idempotent ==
    \A t \in Threads :
        (Done(t, "analyze") /\ prev[t].ok /\ call[t].out_info # NULL
         /\ env[t] = prev[t].env) =>
            (ret[t] = prev[t].ret /\ info[t] = prev[t].info)

\* What one mp3_analyze call produces when nothing runs beside it: the
\* code it returns and the caller's record, from the call's arguments, the
\* record before the call and what the allocator and the engine's init
\* decide.
mp3_analyze_alone(c, before, e, linked) ==
    IF c.detector = NULL \/ c.host_api = NULL \/ c.out_info = NULL
    THEN [ret |-> MP3_ERR_INVALID_PTR, info |-> before]
    ELSE IF c.api.read_at = NULL
    THEN [ret |-> MP3_ERR_INVALID_ARG, info |-> before]
    ELSE IF e.alloc = NULL
    THEN [ret |-> MP3_ERR_OUT_OF_MEMORY, info |-> before]
    ELSE IF ~linked
    THEN [ret |-> MP3_ERR_NOT_IMPLEMENTED, info |-> before]
    ELSE IF e.eh = NULL
    THEN [ret |-> MP3_ERR_OUT_OF_MEMORY, info |-> before]
    ELSE LET r == ScanAll(c.api, ScanInit) IN [ret |-> r.code, info |-> r.info]

\* The mp3_session_t objects allocated and not freed.
LiveSessions == {s \in SessIds : heap[s].live}

\* Thread t's mp3_analyze holds a session: init returned it, deinit has
\* not yet run.
Holds(t) ==
    call[t].op = "analyze" /\ pc[t] \in {"run", "scan", "deinit"} /\ cur[t] # NULL

\* The session object a call in progress has allocated and not yet handed
\* to the caller or freed: that of an mp3_session_init between its new and
\* its return, that of an mp3_analyze up to the delete of its deinit.
Working(t) ==
    IF /\ cur[t] # NULL
       /\ \/ pc[t] \in {"init_engine", "init_fail"}
          \/ /\ call[t].op = "analyze"
             /\ pc[t] \in {"run", "scan", "deinit", "deinit_delete"}
    THEN {cur[t]} ELSE {}

\* C7: of two mp3_analyze calls running on separate threads with the one
\* detector, their own host APIs and their own records, each returns the
\* code and leaves the record it produces when run alone, in every
\* interleaving of the steps of mp3_session_init, mp3_session_run and
\* mp3_session_deinit; the two never have the same session object, and
\* between its init and its deinit a call's session and engine context are
\* live and are not the other call's.
C7_ConcurrentIndependent ==
    \A t \in Threads :
        /\ Done(t, "analyze") =>
              LET a == mp3_analyze_alone(call[t], prior[t], env[t], rust_linked)
              IN ret[t] = a.ret /\ info[t] = a.info
        /\ Working(t) \subseteq LiveSessions
        /\ Holds(t) => EngineKnows(heap[cur[t]].rust_session)
        /\ \A u \in Threads \ {t} :
              /\ Working(t) \cap Working(u) = {}
              /\ (Holds(t) /\ Holds(u)) =>
                     heap[cur[t]].rust_session # heap[cur[u]].rust_session

\* One thread's analysis has returned MP3_OK while the other thread's
\* analysis of another source is in the engine.
C7_Witness ==
    \E t \in Threads, u \in Threads :
        /\ t # u
        /\ Done(t, "analyze") /\ ret[t] = MP3_OK /\ info[t].valid = 1
        /\ call[u].op = "analyze" /\ pc[u] = "scan" /\ scan[u].off > 0
        /\ call[u].api.file # call[t].api.file

\* C8: when a read_at call made during mp3_analyze returned an error,
\* mp3_analyze returns MP3_ERR_IO and out_info is not marked valid.
C8_ReadErrorIsIo ==
    \A t \in Threads :
        (Done(t, "analyze") /\ ReadFailed(t)) =>
            (ret[t] = MP3_ERR_IO /\ info[t].valid = 0)

\* A read failed in an analysis whose out_info was marked valid beforehand.
C8_Witness ==
    \E t \in Threads :
        Done(t, "analyze") /\ ReadFailed(t) /\ prior[t].valid = 1

\* The call's arguments are those of the host test on a well-formed file:
\* every pointer in place, a read callback that works, the size given.
GoodCall(c) ==
    /\ AnalyzeChecks(c) = MP3_OK
    /\ c.api.user_ctx # NULL /\ c.api.fail_at = NoFail
    /\ WellFormed(c.api.file) /\ c.api.source_size = Len(c.api.file)

\* C9 (as claimed): for a working host_api over a well-formed source with
\* source_size set, mp3_analyze returns MP3_OK and sets out_info.valid.
C9_WellFormedOk ==
    \A t \in Threads :
        (Done(t, "analyze") /\ GoodCall(call[t])) =>
            (ret[t] = MP3_OK /\ info[t].valid # 0)

\* C9 (amended): the same, in a build that links the engine and when the
\* session allocation and the engine's init succeed.
C9_WellFormedOkLinked ==
    \A t \in Threads :
        (Done(t, "analyze") /\ GoodCall(call[t]) /\ rust_linked
         /\ env[t].alloc # NULL /\ env[t].eh # NULL) =>
            (ret[t] = MP3_OK /\ info[t].valid # 0)

\* A tagged well-formed source was analysed by the linked engine.
C9_Witness ==
    \E t \in Threads :
        /\ Done(t, "analyze") /\ GoodCall(call[t]) /\ rust_linked
        /\ env[t].alloc # NULL /\ env[t].eh # NULL
        /\ call[t].api.file = <<"ID3", "FRAME">>
        /\ info[t].duration_ms > 0

\* C10: every mp3_analyze call returns a result code, whatever its
\* arguments, the source and the outcomes of the allocator and the engine.
C10_AnalyzeReturns ==
    \A t \in Threads :
        (pc[t] = "analyze") ~> (Done(t, "analyze") /\ ret[t] # NoRet)

\* An analysis that read its source more than once has returned.
C10_Witness ==
    \E t \in Threads :
        /\ Done(t, "analyze") /\ ret[t] # NoRet
        /\ \E i \in 1..Len(trace[t]) :
               trace[t][i].ev = "read" /\ trace[t][i].arg > 0

\* The events of a call are its allocator, engine and host calls, and the
\* returns ("ran") of mp3_rust_session_run_impl with the code returned.
\* The calls of the mp3_rust_session_*_impl functions among the events of a
\* call, in the order they were made.
IsEngineCall(e) == e.ev \in {"init", "run", "deinit"}
EngineCalls(tr) == SelectSeq(tr, IsEngineCall)

\* C11: the engine calls of one mp3_analyze are init, run, deinit in that
\* order: init is called at most once and first; run and deinit are called
\* once each, run before deinit and both on the handle init gave, exactly
\* when init returned MP3_OK, and not at all when it returned an error; the
\* deinit is the last call into the engine and no read_at follows it.
C11_EngineCallOrder ==
    \A t \in Threads :
        call[t].op = "analyze" =>
            LET ec == EngineCalls(trace[t])
                n == Len(ec)
            IN  /\ n <= 3
                /\ n >= 1 => ec[1].ev = "init"
                /\ n >= 2 => /\ ec[1].code = MP3_OK
                             /\ ec[2] = Event("run", ec[1].arg, MP3_OK)
                /\ n >= 3 => /\ ec[3] = Event("deinit", ec[1].arg, MP3_OK)
                             /\ \/ trace[t][Len(trace[t])] = ec[3]
                                \/ /\ trace[t][Len(trace[t]) - 1] = ec[3]
                                   /\ trace[t][Len(trace[t])].ev = "delete"
                /\ pc[t] = "done" =>
                       /\ n \in {0, 1, 3}
                       /\ n = 1 => ec[1].code # MP3_OK
                       /\ n = 0 => (AnalyzeChecks(call[t]) # MP3_OK
                                      \/ env[t].alloc = NULL)

\* An analysis that read its source went through init, run and deinit.
C11_Witness ==
    \E t \in Threads :
        /\ Done(t, "analyze")
        /\ Len(EngineCalls(trace[t])) = 3
        /\ \E i \in 1..Len(trace[t]) : trace[t][i].ev = "read"

\* The returns of mp3_rust_session_run_impl among the events of a call.
IsRunReturn(e) == e.ev = "ran"
RunReturnsOf(tr) == SelectSeq(tr, IsRunReturn)

\* What the mp3_session_init called by mp3_analyze returned: the code of
\* the failed check, of the failed allocation, or of the engine's init.
InitResult(t) ==
    IF AnalyzeChecks(call[t]) # MP3_OK THEN AnalyzeChecks(call[t])
    ELSE IF env[t].alloc = NULL THEN MP3_ERR_OUT_OF_MEMORY
    ELSE EngineCalls(trace[t])[1].code

\* C12: a call of mp3_analyze whose own pointer check passed returns the
\* code of mp3_session_init when that is not MP3_OK, the engine's run never
\* being called; otherwise it returns the code mp3_rust_session_run_impl
\* returned, the deinit that follows leaving it as it is.
C12_CodeSurfaced ==
    \A t \in Threads :
        (Done(t, "analyze") /\ call[t].detector # NULL
         /\ call[t].host_api # NULL /\ call[t].out_info # NULL) =>
            LET rr == RunReturnsOf(trace[t]) IN
            IF InitResult(t) # MP3_OK
            THEN ret[t] = InitResult(t) /\ rr = <<>>
            ELSE /\ Len(rr) = 1
                 /\ ret[t] = rr[1].code
                 /\ trace[t][Len(trace[t]) - 1].ev = "deinit"

\* The engine's run failed on the source, and mp3_analyze returned after
\* the deinit.
C12_Witness ==
    \E t \in Threads :
        /\ Done(t, "analyze")
        /\ Len(RunReturnsOf(trace[t])) = 1
        /\ RunReturnsOf(trace[t])[1].code = MP3_ERR_INVALID_FORMAT
        /\ trace[t][Len(trace[t])].ev = "delete"

\* The session a client holds: mp3_session_init handed it out and the
\* client's mp3_session_deinit has not freed it.
Held(t) ==
    IF sess[t] \in SessIds /\ pc[t] # "session_init"
       /\ ~(Done(t, "session_deinit") /\ call[t].session = sess[t])
    THEN {sess[t]} ELSE {}

\* The sessions allocated, and those freed, in a sequence of events.
IsNew(e) == e.ev = "new"
IsDelete(e) == e.ev = "delete"
News(tr) == SelectSeq(tr, IsNew)
Deletes(tr) == SelectSeq(tr, IsDelete)

\* C13: the live sessions are at any time those the clients hold from
\* mp3_session_init and those the calls in progress work on, so that
\* after mp3_analyze has returned, on any path, the live sessions are the
\* ones there were before the call; a session mp3_session_init allocates
\* is handed out through *out_session with MP3_OK or freed before the
\* error return; no call frees a session twice, or one it did not get.
C13_NoSessionOutlives ==
    /\ LiveSessions = UNION {Held(t) \cup Working(t) : t \in Threads}
    /\ \A t \in Threads :
        LET nw == News(trace[t])
            dl == Deletes(trace[t])
        IN  /\ Len(nw) <= 1 /\ Len(dl) <= 1
            /\ Done(t, "analyze") =>
                   /\ LiveSessions = Held(t)
                   /\ Len(nw) = Len(dl)
                   /\ Len(nw) = 1 => nw[1].arg = dl[1].arg
            /\ Done(t, "session_init") =>
                   IF ret[t] = MP3_OK
                   THEN /\ Len(nw) = 1 /\ dl = <<>>
                        /\ sess[t] = nw[1].arg /\ heap[sess[t]].live
                   ELSE /\ Len(nw) = Len(dl)
                        /\ Len(nw) = 1 => nw[1].arg = dl[1].arg
                        /\ sess[t] \notin SessIds
            /\ (Done(t, "session_deinit") /\ call[t].session # NULL) =>
                   /\ nw = <<>> /\ Len(dl) = 1
                   /\ dl[1].arg = call[t].session
            /\ call[t].op = "session_run" => (nw = <<>> /\ dl = <<>>)

\* A client that holds a session made an mp3_analyze call that went through
\* init, run and deinit, and holds its own session still.
C13_Witness ==
    \E t \in Threads :
        /\ Done(t, "analyze")
        /\ sess[t] \in SessIds /\ LiveSessions = {sess[t]}
        /\ Len(News(trace[t])) = 1 /\ Len(Deletes(trace[t])) = 1
        /\ Len(EngineCalls(trace[t])) = 3

\* C14 (as claimed): mp3_session_init leaves a session in *out_session
\* when it returns MP3_OK, and null on every return of another code,
\* whatever *out_session held before the call.
C14_NullOnEveryFailure ==
    \A t \in Threads :
        (Done(t, "session_init") /\ call[t].out_session # NULL) =>
            IF ret[t] = MP3_OK THEN sess[t] \in SessIds ELSE sess[t] = NULL

\* C14 (amended): mp3_session_init leaves a live session in *out_session
\* exactly when it returns MP3_OK; when the allocation or the engine's init
\* fails, *out_session is null on return whatever it held before; when an
\* argument check fails (MP3_ERR_INVALID_PTR, MP3_ERR_INVALID_ARG),
\* *out_session is not written and holds what it held before.
C14_NullOnLateFailure ==
    \A t \in Threads :
        (Done(t, "session_init") /\ call[t].out_session # NULL) =>
            LET c == call[t]
                chk == init_checks(c.detector, c.host_api, c.api, c.out_session)
            IN  /\ (sess[t] \in SessIds) <=> (ret[t] = MP3_OK)
                /\ ret[t] = MP3_OK => heap[sess[t]].live
                /\ chk # MP3_OK => (ret[t] = chk /\ sess[t] = c.before)
                /\ (chk = MP3_OK /\ ret[t] # MP3_OK) => sess[t] = NULL

\* An init that failed after its argument checks cleared a session variable
\* that held a stray pointer.
C14_Witness ==
    \E t \in Threads :
        /\ Done(t, "session_init") /\ call[t].out_session # NULL
        /\ call[t].before = GARBAGE
        /\ ret[t] \in {MP3_ERR_OUT_OF_MEMORY, MP3_ERR_NOT_IMPLEMENTED}
        /\ sess[t] = NULL

\* What the engine writes to out_info in a run on the session of handle h:
\* the result of the analysis when it succeeds, nothing otherwise.
EngineWrites(h) ==
    IF rust_linked
    THEN ScanAll(EngineApi(h), [ScanInit EXCEPT !.h = h]).info
    ELSE ZeroInfo

\* C15: in a call of mp3_session_run with a session and a record, the
\* whole record is zero when mp3_rust_session_run_impl is entered and for as
\* long as the engine has not written its result, and on return it is all
\* zeros or what the engine wrote in this call, whatever it held before;
\* with the weak stubs it is all zeros.
C15_RunClearsRecord ==
    \A t \in Threads :
        (call[t].op = "session_run" /\ call[t].session # NULL
         /\ call[t].out_info # NULL) =>
            /\ pc[t] = "scan" => info[t] = ZeroInfo
            /\ pc[t] = "done" =>
                   /\ info[t] = EngineWrites(inith[t])
                   /\ ret[t] # MP3_OK => info[t] = ZeroInfo
                   /\ ~rust_linked => info[t] = ZeroInfo

\* A run that failed on its source returned with a zero record, the record
\* having held the result of an earlier analysis when the run was called.
C15_Witness ==
    \E t \in Threads :
        /\ Done(t, "session_run")
        /\ call[t].session # NULL /\ call[t].out_info # NULL
        /\ prior[t] = StaleInfo
        /\ ret[t] = MP3_ERR_INVALID_FORMAT
        /\ info[t] = ZeroInfo

\* C16: mp3_detector_create and mp3_detector_instance return the one
\* non-null handle &g_detector every time; no operation of the API changes
\* the detector object; and a call of mp3_analyze returns the code and
\* leaves the record that its arguments, the record and the outcomes of the
\* allocator and the engine determine, the same after an
\* mp3_detector_destroy on the handle as before it.
C16_DetectorStateless ==
    /\ reserved = 0
    /\ \A t \in active :
        /\ dh[t] \in {NULL, g_detector}
        /\ Done(t, "analyze") =>
               LET a == mp3_analyze_alone(call[t], prior[t], env[t], rust_linked)
               IN ret[t] = a.ret /\ info[t] = a.info

\* A client destroyed the detector it got from create or instance and then
\* analysed a source with the same handle.
C16_Witness ==
    \E t \in active :
        /\ destroyed
        /\ dh[t] = g_detector
        /\ Done(t, "analyze") /\ call[t].detector = dh[t]
        /\ ret[t] = MP3_OK /\ info[t].valid = 1

\* The call of thread t has returned rejected for a null argument:
\* MP3_ERR_INVALID_PTR from mp3_session_init, mp3_session_run or
\* mp3_analyze, or an mp3_session_deinit of a null session.
Rejected(t) ==
    /\ pc[t] = "done"
    /\ \/ /\ call[t].op \in {"session_init", "session_run", "analyze"}
          /\ ret[t] = MP3_ERR_INVALID_PTR
       \/ call[t].op = "session_deinit" /\ call[t].session = NULL

\* The engine contexts in use.
LiveContexts == {h \in EngIds : eng[h].live}

\* C17: a call rejected for a null argument has made no call of an engine
\* function, of the host's read_at, of the allocator or of delete; the
\* caller's session variable and record hold what they held when the call
\* was made, and the sessions and engine contexts in use are those the
\* caller holds.
C17_RejectedCallNoEffect ==
    \A t \in Threads :
        Rejected(t) =>
            /\ trace[t] = <<>>
            /\ sess[t] = call[t].before
            /\ info[t] = prior[t]
            /\ LiveSessions = Held(t)
            /\ LiveContexts = {heap[s].rust_session : s \in Held(t)}

\* mp3_session_init was rejected for its null detector while the caller's
\* session variable held a stray pointer and its record an earlier result.
C17_Witness ==
    \E t \in Threads :
        /\ Rejected(t) /\ call[t].op = "session_init"
        /\ call[t].detector = NULL /\ call[t].out_session # NULL
        /\ call[t].before = GARBAGE /\ sess[t] = GARBAGE
        /\ info[t] = StaleInfo

====
